---------------------------- MODULE Spec2Model ----------------------------
(***************************************************************************)
(* Model of epg2xml/providers/lg.py: the LG U+ EPG provider.               *)
(*                                                                         *)
(* JSON values returned by self.request are tagged records, so that the   *)
(* isinstance tests, truthiness tests and str() conversions of the code    *)
(* can be computed as the code computes them.  Python strings are TLA+     *)
(* strings; the Korean literals of the source are written in ASCII (TLA+   *)
(* strings are ASCII), each with the original next to it.                  *)
(***************************************************************************)
EXTENDS Integers, Sequences, FiniteSets, TLC

----------------------------------------------------------------------------
(* JSON / Python values *)

JNull == [t |-> "null"]
JStr(s) == [t |-> "str", s |-> s]
JNum(n) == [t |-> "num", n |-> n]
JList(items) == [t |-> "list", items |-> items]
JDict(f) == [t |-> "dict", f |-> f]
\* a dict with no keys: a function with empty domain
EmptyMap == [k \in {} |-> ""]

IsStr(v) == v.t = "str"
IsList(v) == v.t = "list"
IsDict(v) == v.t = "dict"

\* Python truthiness: None, "", 0, [] and {} are falsy
Truthy(v) ==
  CASE v.t = "null" -> FALSE
    [] v.t = "str" -> v.s # ""
    [] v.t = "num" -> v.n # 0
    [] v.t = "list" -> v.items # <<>>
    [] v.t = "dict" -> DOMAIN v.f # {}

\* dict.get(key, default)
Get(d, key, default) == IF key \in DOMAIN d.f THEN d.f[key] ELSE default

\* str(v) for the scalar values the upstream sends
PyStr(v) ==
  CASE v.t = "str" -> v.s
    [] v.t = "null" -> "None"
    [] v.t = "num" -> ToString(v.n)

Whitespace == {" ", "\t", "\n", "\r"}

RECURSIVE LStrip(_)
LStrip(s) == IF s # "" /\ Head(s) \in Whitespace THEN LStrip(Tail(s)) ELSE s

RECURSIVE RStrip(_)
RStrip(s) ==
  IF s # "" /\ SubSeq(s, Len(s), Len(s)) \in Whitespace
  THEN RStrip(SubSeq(s, 1, Len(s) - 1))
  ELSE s

\* str.strip()
Strip(s) == RStrip(LStrip(s))

\* " ".join(list of str)
RECURSIVE Join(_)
Join(l) ==
  IF l = <<>> THEN ""
  ELSE IF Len(l) = 1 THEN l[1]
  ELSE l[1] \o " " \o Join(Tail(l))

----------------------------------------------------------------------------
(* datetime.strptime(s, "%Y%m%d%H:%M:%S") *)

Digit == {"0", "1", "2", "3", "4", "5", "6", "7", "8", "9"}
Digit19 == Digit \ {"0"}
DigitVal(c) ==
  CASE c = "0" -> 0 [] c = "1" -> 1 [] c = "2" -> 2 [] c = "3" -> 3
    [] c = "4" -> 4 [] c = "5" -> 5 [] c = "6" -> 6 [] c = "7" -> 7
    [] c = "8" -> 8 [] c = "9" -> 9 [] c = " " -> 0

\* The regular expression the format compiles to: one entry per directive or
\* literal, each a sequence of alternatives tried in this order, each
\* alternative a sequence of character classes.
FormatRegex == <<
  << <<Digit, Digit, Digit, Digit>> >>,                                  \* %Y
  << <<{"1"}, {"0", "1", "2"}>>, <<{"0"}, Digit19>>, <<Digit19>> >>,      \* %m
  << <<{"3"}, {"0", "1"}>>, <<{"1", "2"}, Digit>>, <<{"0"}, Digit19>>,
     <<Digit19>>, <<{" "}, Digit19>> >>,                                  \* %d
  << <<{"2"}, {"0", "1", "2", "3"}>>, <<{"0", "1"}, Digit>>, <<Digit>> >>, \* %H
  << <<{":"}>> >>,
  << <<{"0", "1", "2", "3", "4", "5"}, Digit>>, <<Digit>> >>,             \* %M
  << <<{":"}>> >>,
  << <<{"6"}, {"0", "1"}>>, <<{"0", "1", "2", "3", "4", "5"}, Digit>>,
     <<Digit>> >>                                                         \* %S
>>

NoMatch == <<"nomatch">>

AltMatches(s, i, alt) ==
  /\ i + Len(alt) - 1 <= Len(s)
  /\ \A j \in 1..Len(alt) : SubSeq(s, i + j - 1, i + j - 1) \in alt[j]

\* re.match: depth-first, alternatives in order, backtracking on failure of
\* the rest.  The result is the sequence of matched groups, or NoMatch.
RECURSIVE ReMatch(_, _, _, _)
ReMatch(s, i, k, a) ==
  IF k > Len(FormatRegex) THEN <<>>
  ELSE IF a > Len(FormatRegex[k]) THEN NoMatch
  ELSE
    LET alt == FormatRegex[k][a]
        rest == IF AltMatches(s, i, alt)
                THEN ReMatch(s, i + Len(alt), k + 1, 1)
                ELSE NoMatch
    IN IF rest # NoMatch
       THEN <<SubSeq(s, i, i + Len(alt) - 1)>> \o rest
       ELSE ReMatch(s, i, k, a + 1)

RECURSIVE ToInt(_)
ToInt(s) ==
  IF s = "" THEN 0
  ELSE 10 * ToInt(SubSeq(s, 1, Len(s) - 1)) + DigitVal(SubSeq(s, Len(s), Len(s)))

RECURSIVE TotalLen(_)
TotalLen(groups) == IF groups = <<>> THEN 0 ELSE Len(Head(groups)) + TotalLen(Tail(groups))

IsLeap(y) == (y % 4 = 0 /\ y % 100 # 0) \/ y % 400 = 0
DaysInMonth(y, m) ==
  IF m = 2 THEN (IF IsLeap(y) THEN 29 ELSE 28)
  ELSE IF m \in {4, 6, 9, 11} THEN 30 ELSE 31

ValueError == [err |-> "ValueError"]

\* A datetime, or ValueError: no match, unconverted data after the match, or
\* field values the datetime constructor rejects.
Strptime(s) ==
  LET g == ReMatch(s, 1, 1, 1) IN
  IF g = NoMatch THEN ValueError
  ELSE IF TotalLen(g) # Len(s) THEN ValueError
  ELSE
    LET y == ToInt(g[1])  mo == ToInt(g[2])  d == ToInt(g[3])
        h == ToInt(g[4])  mi == ToInt(g[6])  sec == ToInt(g[8])
    IN IF y < 1 \/ d > DaysInMonth(y, mo) \/ sec > 59 THEN ValueError
       ELSE [year |-> y, month |-> mo, day |-> d,
             hour |-> h, minute |-> mi, second |-> sec]


----------------------------------------------------------------------------
(* Module constants of lg.py *)

\* G_CODE: age-rating code -> minimum age
G_CODE == [c \in {"0", "1", "2", "3", "4", ""} |->
            CASE c = "0" -> 0 [] c = "1" -> 7 [] c = "2" -> 12
              [] c = "3" -> 15 [] c = "4" -> 19 [] c = "" -> 0]

\* P_CATE: programme category code -> name.  ASCII for the Korean names:
\* movie = 영화, sports/hobby = 스포츠/취미, animation = 만화, drama = 드라마,
\* culture/docu = 교양/다큐, education = 교육, kids = 어린이,
\* entertainment = 연예/오락, performance/music = 공연/음악, game = 게임,
\* docu = 다큐, news/info = 뉴스/정보, life = 라이프, home shopping = 홈쇼핑,
\* economy/real estate = 경제/부동산, other = 기타.
P_CATE ==
  [c \in {"00", "01", "02", "03", "04", "05", "06", "07", "08", "09", "10",
          "11", "12", "13", "15", "16", "31", ""} |->
    CASE c = "00" -> "movie" [] c = "01" -> "sports/hobby"
      [] c = "02" -> "animation" [] c = "03" -> "drama"
      [] c = "04" -> "culture/docu" [] c = "05" -> "sports/hobby"
      [] c = "06" -> "education" [] c = "07" -> "kids"
      [] c = "08" -> "entertainment" [] c = "09" -> "performance/music"
      [] c = "10" -> "game" [] c = "11" -> "docu"
      [] c = "12" -> "news/info" [] c = "13" -> "life"
      [] c = "15" -> "home shopping" [] c = "16" -> "economy/real estate"
      [] c = "31" -> "other" [] c = "" -> "other"]

\* the literals of the f-strings and defaults, in ASCII
GenreCodePrefix == "genre-code:"    \* "장르코드:"
CodePrefix == "code:"               \* "코드:"
NoTitle == "no title"               \* "제목 없음"
TagSubtitle == "subtitle"           \* "자막"
TagAudioDescription == "audio-description"  \* "화면해설"
TagSignLanguage == "sign-language"  \* "수화"

----------------------------------------------------------------------------
(* State *)

VARIABLES
  channel_genre_map,      \* self.channel_genre_map: genre code -> genre name
  genre_map_initialized,  \* self.genre_map_initialized
  programs,               \* channel.programs of each host channel object
  fetches,                \* number of get_programs calls so far
  build_failed,           \* history: some call left the genre map unbuilt
  last                    \* the last call: its inputs, and how it came back

vars == <<channel_genre_map, genre_map_initialized, programs, fetches, build_failed, last>>

\* self.request raised
RequestException == [t |-> "exception"]

\* _fetch_api_data: the outcome of self.request is an exception or a value;
\* anything but a dict or a list comes back as None.
FetchApiData(outcome) ==
  IF outcome = RequestException THEN JNull
  ELSE IF ~(IsDict(outcome) \/ IsList(outcome)) THEN JNull
  ELSE outcome

\* date.strftime("%Y%m%d")
Pad(n, width) ==
  LET str == ToString(n) IN
  IF Len(str) >= width THEN str
  ELSE SubSeq("0000", 1, width - Len(str)) \o str
StrftimeYmd(d) == Pad(d.year, 4) \o Pad(d.month, 2) \o Pad(d.day, 2)

----------------------------------------------------------------------------
(* _initialize_channel_genre_map *)

\* the loop over raw_genre_list, building temp_genre_map
RECURSIVE GenreLoop(_, _)
GenreLoop(raw_genre_list, temp_genre_map) ==
  IF raw_genre_list = <<>> THEN temp_genre_map
  ELSE
    LET genre_item == Head(raw_genre_list)
        genre_code == Get(genre_item, "urcBrdCntrTvChnlGnreCd", JNull)
        genre_name == Get(genre_item, "urcBrdCntrTvChnlGnreNm", JNull)
        next_map ==
          IF IsDict(genre_item) /\ genre_code # JNull /\ genre_name # JNull
          THEN [k \in DOMAIN temp_genre_map \cup {PyStr(genre_code)} |->
                  IF k = PyStr(genre_code) THEN PyStr(genre_name)
                  ELSE temp_genre_map[k]]
          ELSE temp_genre_map
    IN GenreLoop(Tail(raw_genre_list), next_map)

\* variant: without the early return on genre_map_initialized
InitializeChannelGenreMap_Rebuilds(self, api_data_for_genres) ==
  IF ~IsDict(api_data_for_genres) THEN self
  ELSE
    LET raw_genre_list == Get(api_data_for_genres, "brdGnreDtoList", JNull) IN
    IF ~IsList(raw_genre_list) THEN self
    ELSE
      LET temp_genre_map == GenreLoop(raw_genre_list.items, EmptyMap) IN
      IF DOMAIN temp_genre_map # {}
      THEN [channel_genre_map |-> temp_genre_map, genre_map_initialized |-> TRUE]
      ELSE self

\* variant: the flag is set after the loop whether or not it found a pair
InitializeChannelGenreMap_FlagsEmpty(self, api_data_for_genres) ==
  IF self.genre_map_initialized THEN self
  ELSE IF ~IsDict(api_data_for_genres) THEN self
  ELSE
    LET raw_genre_list == Get(api_data_for_genres, "brdGnreDtoList", JNull) IN
    IF ~IsList(raw_genre_list) THEN self
    ELSE [channel_genre_map |-> GenreLoop(raw_genre_list.items, EmptyMap),
          genre_map_initialized |-> TRUE]

\* self is the pair of fields the method reads and writes
InitializeChannelGenreMap(self, api_data_for_genres) ==
  IF self.genre_map_initialized THEN self
  ELSE IF ~IsDict(api_data_for_genres) THEN self
  ELSE
    LET raw_genre_list == Get(api_data_for_genres, "brdGnreDtoList", JNull) IN
    IF ~IsList(raw_genre_list) THEN self
    ELSE
      LET temp_genre_map == GenreLoop(raw_genre_list.items, EmptyMap) IN
      IF DOMAIN temp_genre_map # {}
      THEN [channel_genre_map |-> temp_genre_map, genre_map_initialized |-> TRUE]
      ELSE self

----------------------------------------------------------------------------
(* get_svc_channels *)

\* channel_obj["Category"]
ChannelCategory(genre_map, x_ch_info) ==
  LET channel_genre_code == PyStr(Get(x_ch_info, "urcBrdCntrTvChnlGnreCd", JStr(""))) IN
  IF channel_genre_code # "" /\ DOMAIN genre_map # {}
  THEN (IF channel_genre_code \in DOMAIN genre_map
        THEN genre_map[channel_genre_code] ELSE "")
  ELSE IF channel_genre_code # "" THEN GenreCodePrefix \o channel_genre_code
  ELSE ""

\* variant: the name is not tested
KeepsChannel_IdOnly(x_ch_info) ==
  /\ IsDict(x_ch_info)
  /\ Truthy(Get(x_ch_info, "urcBrdCntrTvChnlId", JNull))

\* whether the loop keeps the raw entry (it is a dict with truthy id and name)
KeepsChannel(x_ch_info) ==
  /\ IsDict(x_ch_info)
  /\ Truthy(Get(x_ch_info, "urcBrdCntrTvChnlId", JNull))
  /\ Truthy(Get(x_ch_info, "urcBrdCntrTvChnlNm", JNull))

ChannelObj(genre_map, x_ch_info) ==
  [ServiceId |-> PyStr(Get(x_ch_info, "urcBrdCntrTvChnlId", JNull)),
   Name |-> PyStr(Get(x_ch_info, "urcBrdCntrTvChnlNm", JNull)),
   No |-> PyStr(Get(x_ch_info, "urcBrdCntrTvChnlNo", JStr(""))),
   Icon_url |-> Get(x_ch_info, "bgImgUrl", JStr("")),
   EPG |-> <<>>,
   Category |-> ChannelCategory(genre_map, x_ch_info)]

\* the loop over raw_channel_list
RECURSIVE SvcChannelsLoop(_, _)
SvcChannelsLoop(genre_map, raw_channel_list) ==
  IF raw_channel_list = <<>> THEN <<>>
  ELSE
    LET x_ch_info == Head(raw_channel_list)
        rest == SvcChannelsLoop(genre_map, Tail(raw_channel_list))
    IN IF KeepsChannel(x_ch_info)
       THEN <<ChannelObj(genre_map, x_ch_info)>> \o rest
       ELSE rest

\* The whole call, given what self.request did: whether it raised to the
\* caller, what it returned, and the fields of self after it.
SvcChannelsCall(self, outcome) ==
  LET data == FetchApiData(outcome) IN
  IF ~Truthy(data)
  THEN [raised |-> FALSE, ret |-> <<>>, self |-> self]
  ELSE
    LET self1 == IF ~self.genre_map_initialized
                 THEN InitializeChannelGenreMap(self, data) ELSE self
    IN
    IF ~IsDict(data)
    \* data.get on a list: AttributeError, outside any try
    THEN [raised |-> TRUE, ret |-> <<>>, self |-> self1]
    ELSE
      LET raw_channel_list == Get(data, "brdCntrTvChnlIDtoList", JNull) IN
      IF ~IsList(raw_channel_list)
      THEN [raised |-> FALSE, ret |-> <<>>, self |-> self1]
      ELSE [raised |-> FALSE,
            ret |-> SvcChannelsLoop(self1.channel_genre_map, raw_channel_list.items),
            self |-> self1]

----------------------------------------------------------------------------
(* __epgs_of_day *)

\* _epg.extras: the list the code joins, or nothing when the list is empty
ExtrasList(p_info) ==
  (IF Truthy(Get(p_info, "brdPgmRsolNm", JNull))
   THEN <<Get(p_info, "brdPgmRsolNm", JNull)>> ELSE <<>>)
  \o (IF Get(p_info, "subtBrdYn", JNull) = JStr("Y") THEN <<JStr(TagSubtitle)>> ELSE <<>>)
  \o (IF Get(p_info, "explBrdYn", JNull) = JStr("Y") THEN <<JStr(TagAudioDescription)>> ELSE <<>>)
  \o (IF Get(p_info, "silaBrdYn", JNull) = JStr("Y") THEN <<JStr(TagSignLanguage)>> ELSE <<>>)

\* variant: the code is looked up without the test that it is non-empty
Categories_BlankLookedUp(p_info) ==
  LET program_category_code == PyStr(Get(p_info, "urcBrdCntrTvSchdGnreCd", JStr(""))) IN
  IF program_category_code \in DOMAIN P_CATE
  THEN <<P_CATE[program_category_code]>>
  ELSE <<CodePrefix \o program_category_code>>

\* _epg.categories: a one-entry list, or <<>> when the attribute is not set
Categories(p_info) ==
  LET program_category_code == PyStr(Get(p_info, "urcBrdCntrTvSchdGnreCd", JStr(""))) IN
  IF program_category_code # "" /\ program_category_code \in DOMAIN P_CATE
  THEN (IF P_CATE[program_category_code] # ""
        THEN <<P_CATE[program_category_code]>> ELSE <<>>)
  ELSE IF program_category_code # "" THEN <<CodePrefix \o program_category_code>>
  ELSE <<>>

\* _epg.rating
Rating(p_info) ==
  LET code == PyStr(Get(p_info, "brdWtchAgeGrdCd", JStr(""))) IN
  IF code \in DOMAIN G_CODE THEN G_CODE[code] ELSE 0

\* One pass of the loop body on a raw entry:
\*   [kind |-> "skip"]  the entry is passed over (continue),
\*   [kind |-> "raise"] an exception other than the ValueError of strptime,
\*   [kind |-> "epg"]   the EPGProgram appended to _epgs.
\* An attribute the code does not set (extras, categories) is no field of epg.
EpgOfEntry(channel_xmltv_id, p_info) ==
  IF ~IsDict(p_info) THEN [kind |-> "skip"]
  ELSE
    LET raw_title == Get(p_info, "brdPgmTitNm", JStr(""))
        raw_desc == Get(p_info, "brdPgmDscr", JStr(""))
        brd_dt_str == Get(p_info, "brdCntrTvChnlBrdDt", JNull)
        start_t_str == Get(p_info, "epgStrtTme", JNull)
    IN
    \* .strip() on a value that is no str
    IF ~IsStr(raw_title) THEN [kind |-> "raise", exc |-> "AttributeError"]
    ELSE IF ~IsStr(raw_desc) THEN [kind |-> "raise", exc |-> "AttributeError"]
    ELSE IF ~(Truthy(brd_dt_str) /\ Truthy(start_t_str)) THEN [kind |-> "skip"]
    \* brd_dt_str + start_t_str, or strptime of the sum, on values that are no str
    ELSE IF ~(IsStr(brd_dt_str) /\ IsStr(start_t_str))
      THEN [kind |-> "raise", exc |-> "TypeError"]
    ELSE
      LET stime == Strptime(brd_dt_str.s \o start_t_str.s)
          extras_list == ExtrasList(p_info)
          categories == Categories(p_info)
          title == IF Strip(raw_title.s) # "" THEN Strip(raw_title.s) ELSE NoTitle
          desc == IF Strip(raw_desc.s) # "" THEN JStr(Strip(raw_desc.s)) ELSE JNull
      IN
      IF stime = ValueError THEN [kind |-> "skip"]
      \* " ".join on a list holding a value that is no str
      ELSE IF \E i \in 1..Len(extras_list) : ~IsStr(extras_list[i])
        THEN [kind |-> "raise", exc |-> "TypeError"]
      ELSE
        [kind |-> "epg",
         epg |-> [channelid |-> channel_xmltv_id, title |-> title, desc |-> desc,
                  stime |-> stime, rating |-> Rating(p_info)]
                 @@ (IF extras_list # <<>>
                     THEN [extras |-> Join([i \in 1..Len(extras_list) |-> extras_list[i].s])]
                     ELSE EmptyMap)
                 @@ (IF categories # <<>> THEN [categories |-> categories] ELSE EmptyMap)]

----------------------------------------------------------------------------
(* Bounds and inputs *)

MaxGenres == 2      \* longest genre list built freely from GenreCore
MaxChannels == 2    \* longest channel list built freely from ChannelCore
MaxEntries == 2     \* longest schedule list built freely from EntryCore
MaxFetches == 2     \* get_programs calls in one run

SeqsUpTo(S, n) == UNION {[1..k -> S] : k \in 0..n}

\* a key the response does not have
Missing == [t |-> "missing"]
Field(key, v) == IF v = Missing THEN EmptyMap ELSE key :> v

\* date.today() of the run, and the days the host asks for
Today == [year |-> 2024, month |-> 1, day |-> 9]
Days == {Today, [year |-> 2024, month |-> 12, day |-> 31]}

\* the host's channel objects: id (xmltv id), name, svcid
HostChannels ==
  {[id |-> "101.lg", name |-> "KBS1", svcid |-> "101"],
   [id |-> "202.lg", name |-> "MBC", svcid |-> ""],
   [id |-> ".lg", name |-> "unnamed", svcid |-> ""]}
ChannelIds == {c.id : c \in HostChannels}

\* genre records of the channel-listing response
Genre(code, name) ==
  JDict(Field("urcBrdCntrTvChnlGnreCd", code) @@ Field("urcBrdCntrTvChnlGnreNm", name))
GenreA == Genre(JStr("A"), JStr("Drama"))
GenreB == Genre(JStr("B"), JStr("News"))
GenreCore == {GenreA, GenreB, Genre(JStr("C"), Missing)}
GenreOther ==
  {Genre(JStr("A"), JStr("Kids")), Genre(JNum(7), JStr("Sports")),
   Genre(JStr("B"), JNull), Genre(Missing, JStr("Orphan")), JStr("not a record")}
GenreLists ==
  {JList(l) : l \in SeqsUpTo(GenreCore, MaxGenres)}
  \cup {JList(<<x>>) : x \in GenreOther}
  \cup {JList(<<GenreA, x>>) : x \in GenreOther}
  \cup {Missing, JNull, JStr("no genres")}
FewGenreLists == {Missing, JList(<<GenreA>>), JList(<<GenreB>>)}

\* channel records of the channel-listing response
Channel(id, name, no, icon, genre) ==
  JDict(Field("urcBrdCntrTvChnlId", id) @@ Field("urcBrdCntrTvChnlNm", name)
        @@ Field("urcBrdCntrTvChnlNo", no) @@ Field("bgImgUrl", icon)
        @@ Field("urcBrdCntrTvChnlGnreCd", genre))
ChannelA == Channel(JStr("101"), JStr("KBS1"), JStr("9"), JStr("http://img/101.png"), JStr("A"))
ChannelB == Channel(JStr("202"), JStr("MBC"), JNum(11), Missing, JStr("B"))
ChannelNoGenre == Channel(JStr("303"), JStr("EBS"), Missing, Missing, Missing)
ChannelCore == {ChannelA, ChannelB, Channel(JStr("404"), Missing, JStr("4"), Missing, JStr("A"))}
ChannelOther ==
  {ChannelNoGenre,
   Channel(JStr("505"), JStr("JTBC"), Missing, Missing, JStr("")),
   Channel(JNum(606), JStr("tvN"), Missing, Missing, JNum(7)),
   Channel(Missing, JStr("OCN"), Missing, Missing, JStr("A")),
   Channel(JStr(""), JStr("SBS"), Missing, Missing, JStr("A")),
   Channel(JStr("707"), JStr(""), Missing, Missing, JStr("B")),
   Channel(JNull, JStr("YTN"), Missing, Missing, Missing),
   Channel(JStr("808"), JNull, Missing, Missing, Missing),
   JStr("not a record"), JNull}
ChannelLists ==
  {JList(l) : l \in SeqsUpTo(ChannelCore, MaxChannels)}
  \cup {JList(<<x>>) : x \in ChannelOther}
  \cup {JList(<<ChannelA, x, ChannelB>>) : x \in ChannelOther}
  \cup {Missing, JNull, JStr("no channels")}
FewChannelLists == {Missing, JList(<<ChannelA, ChannelB, ChannelNoGenre>>)}

ListingResponse(genres, channels) ==
  JDict(Field("brdGnreDtoList", genres) @@ Field("brdCntrTvChnlIDtoList", channels))

\* what self.request can do on the channel-listing call
ListingOutcomes ==
  {ListingResponse(g, c) : g \in GenreLists, c \in FewChannelLists}
  \cup {ListingResponse(g, c) : g \in FewGenreLists, c \in ChannelLists}
  \cup {RequestException, JNull, JStr("<html>"), JStr(""), JList(<<>>),
        JList(<<ListingResponse(JList(<<GenreA>>), JList(<<ChannelA>>))>>)}

\* programme records of the schedule response
Entry(title, desc, dt, tme, age, rsol, subt, expl, sila, genre) ==
  JDict(Field("brdPgmTitNm", title) @@ Field("brdPgmDscr", desc)
        @@ Field("brdCntrTvChnlBrdDt", dt) @@ Field("epgStrtTme", tme)
        @@ Field("brdWtchAgeGrdCd", age) @@ Field("brdPgmRsolNm", rsol)
        @@ Field("subtBrdYn", subt) @@ Field("explBrdYn", expl)
        @@ Field("silaBrdYn", sila) @@ Field("urcBrdCntrTvSchdGnreCd", genre))
\* a record with the given title, date and time and nothing else
Plain(title, dt, tme) ==
  Entry(title, Missing, dt, tme, Missing, Missing, Missing, Missing, Missing, Missing)
EntryA ==
  Entry(JStr(" News 9 "), JStr("Evening news"), JStr("20240109"), JStr("21:00:00"),
        JStr("2"), JStr("HD"), JStr("Y"), JStr("N"), JStr("Y"), JStr("12"))
EntryB ==
  Entry(JStr("  "), JStr(""), JStr("20240109"), JStr("22:30:00"),
        Missing, Missing, Missing, Missing, Missing, JStr("99"))
EntryNoDate == Plain(JStr("Movie"), Missing, JStr("23:00:00"))
EntryNullTitle == Plain(JNull, JStr("20240109"), JStr("23:30:00"))
EntryCore == {EntryA, EntryB, EntryNullTitle}
EntryOther ==
  {JStr("not a record"), EntryNoDate,
   Plain(JStr("No time"), JStr("20240109"), JNull),
   Plain(JStr("Empty time"), JStr("20240109"), JStr("")),
   Plain(JStr("Hour 25"), JStr("20240109"), JStr("25:00:00")),
   Plain(JStr("Feb 30"), JStr("20240230"), JStr("10:00:00")),
   Plain(JStr("Short"), JStr("202419"), JStr("7:05:00")),
   Plain(JStr("Number date"), JNum(20240109), JStr("10:00:00")),
   Entry(JStr("Null desc"), JNull, JStr("20240109"), JStr("10:00:00"),
         Missing, Missing, Missing, Missing, Missing, Missing),
   Entry(JStr("Number rsol"), Missing, JStr("20240109"), JStr("10:00:00"),
         Missing, JNum(1080), Missing, Missing, Missing, Missing),
   Entry(JStr("Number rsol, no date"), Missing, Missing, JStr("10:00:00"),
         Missing, JNum(1080), Missing, Missing, Missing, Missing)}
ScheduleLists ==
  {JList(l) : l \in SeqsUpTo(EntryCore, MaxEntries)}
  \cup {JList(<<x>>) : x \in EntryOther}
  \cup {JList(<<EntryA, x, EntryB>>) : x \in EntryOther}
  \cup {Missing, JNull, JStr("no programmes")}

ScheduleResponse(list) == JDict(Field("brdCntTvSchIDtoList", list) @@ ("BAS_DT" :> JStr("20240109")))

\* what self.request can do on the schedule call
ScheduleOutcomes ==
  {ScheduleResponse(l) : l \in ScheduleLists}
  \cup {RequestException, JNull, JStr("<html>"), JStr(""), JList(<<>>),
        JDict(EmptyMap), JList(<<EntryA>>)}

\* single raw entries for the normaliser on its own: every category code of
\* the table and some outside it, with titles, times and flags varied
CategoryCodes ==
  {JStr(c) : c \in DOMAIN P_CATE} \cup {JStr("99"), JStr("3"), JStr("None"), JStr(" "),
   JNum(3), JNum(10), JNull, Missing}
NormEntries ==
  {Entry(title, Missing, JStr("20240109"), tme, age, Missing, subt, Missing, Missing, genre) :
     title \in {JStr("Drama special"), JStr("")},
     tme \in {JStr("08:00:00"), JStr("08:00")},
     age \in {JStr("3"), JStr("9")},
     subt \in {JStr("Y")},
     genre \in CategoryCodes}

----------------------------------------------------------------------------
(* __epgs_of_day: the loop *)

\* EpgOfEntry on every entry the model sends, computed once
SentEntries == EntryCore \cup EntryOther \cup NormEntries
EpgOfEntryOf ==
  [channel_xmltv_id \in ChannelIds, p_info \in SentEntries |->
     EpgOfEntry(channel_xmltv_id, p_info)]

\* variant: a skipped entry ends the loop (break for continue)
RECURSIVE EpgsLoop_BreaksOnSkip(_, _, _)
EpgsLoop_BreaksOnSkip(channel_xmltv_id, raw, _epgs) ==
  IF raw = <<>> THEN [raised |-> FALSE, epgs |-> _epgs]
  ELSE
    LET r == EpgOfEntryOf[channel_xmltv_id, Head(raw)] IN
    CASE r.kind = "skip" -> [raised |-> FALSE, epgs |-> _epgs]
      [] r.kind = "raise" -> [raised |-> TRUE, epgs |-> _epgs]
      [] r.kind = "epg" ->
           EpgsLoop_BreaksOnSkip(channel_xmltv_id, Tail(raw), Append(_epgs, r.epg))

\* The loop: _epgs so far, and whether the loop was left by an exception.
RECURSIVE EpgsLoop(_, _, _)
EpgsLoop(channel_xmltv_id, raw, _epgs) ==
  IF raw = <<>> THEN [raised |-> FALSE, epgs |-> _epgs]
  ELSE
    LET r == EpgOfEntryOf[channel_xmltv_id, Head(raw)] IN
    CASE r.kind = "skip" -> EpgsLoop(channel_xmltv_id, Tail(raw), _epgs)
      [] r.kind = "raise" -> [raised |-> TRUE, epgs |-> _epgs]
      [] r.kind = "epg" -> EpgsLoop(channel_xmltv_id, Tail(raw), Append(_epgs, r.epg))

EpgsOfDay(channel_xmltv_id, program_raw_data_list) ==
  IF ~IsList(program_raw_data_list) THEN [raised |-> FALSE, epgs |-> <<>>]
  ELSE EpgsLoop(channel_xmltv_id, program_raw_data_list.items, <<>>)

----------------------------------------------------------------------------
(* get_programs *)

\* channel.id.split('.')[0]
RECURSIVE BeforeDot(_)
BeforeDot(s) ==
  IF s = "" \/ Head(s) = "." THEN "" ELSE Head(s) \o BeforeDot(Tail(s))

\* api_channel_id, "" when none can be determined
ApiChannelId(channel) ==
  IF channel.svcid # "" THEN channel.svcid ELSE BeforeDot(channel.id)

\* variant: the day's records replace the collection
ExtendPrograms_Replaces(channel_programs, channel_xmltv_id, program_raw_data_list) ==
  LET r == EpgsOfDay(channel_xmltv_id, program_raw_data_list) IN
  IF r.raised THEN channel_programs ELSE r.epgs

\* variant: each record is appended to the collection as it is made, so that
\* those made before an exception stay
ExtendPrograms_KeepsPartial(channel_programs, channel_xmltv_id, program_raw_data_list) ==
  channel_programs \o EpgsOfDay(channel_xmltv_id, program_raw_data_list).epgs

\* the try block: channel.programs after it
ExtendPrograms(channel_programs, channel_xmltv_id, program_raw_data_list) ==
  LET r == EpgsOfDay(channel_xmltv_id, program_raw_data_list) IN
  IF r.raised THEN channel_programs ELSE channel_programs \o r.epgs

\* variant: without the test for no data before data.get
ProgramsCall_NoDataUnchecked(channel_programs, channel_xmltv_id, outcome) ==
  LET data == FetchApiData(outcome) IN
  IF ~IsDict(data) THEN [raised |-> TRUE, programs |-> channel_programs]
  ELSE IF ~Truthy(Get(data, "brdCntTvSchIDtoList", JNull))
    THEN [raised |-> FALSE, programs |-> channel_programs]
  ELSE IF ~IsList(Get(data, "brdCntTvSchIDtoList", JNull))
    THEN [raised |-> FALSE, programs |-> channel_programs]
  ELSE [raised |-> FALSE,
        programs |-> ExtendPrograms(channel_programs, channel_xmltv_id,
                                    Get(data, "brdCntTvSchIDtoList", JNull))]

\* The call from the fetch on, given what self.request did: whether it raised
\* to the caller, and channel.programs after it.
ProgramsCall(channel_programs, channel_xmltv_id, outcome) ==
  LET data == FetchApiData(outcome) IN
  IF ~Truthy(data) THEN [raised |-> FALSE, programs |-> channel_programs]
  \* data.get on a list: AttributeError, outside the try
  ELSE IF ~IsDict(data) THEN [raised |-> TRUE, programs |-> channel_programs]
  ELSE IF ~Truthy(Get(data, "brdCntTvSchIDtoList", JNull))
    THEN [raised |-> FALSE, programs |-> channel_programs]
  ELSE IF ~IsList(Get(data, "brdCntTvSchIDtoList", JNull))
    THEN [raised |-> FALSE, programs |-> channel_programs]
  ELSE [raised |-> FALSE,
        programs |-> ExtendPrograms(channel_programs, channel_xmltv_id,
                                    Get(data, "brdCntTvSchIDtoList", JNull))]

----------------------------------------------------------------------------
(* Actions *)

NoCall == [op |-> "none", raised |-> FALSE]

Init ==
  /\ channel_genre_map = EmptyMap
  /\ genre_map_initialized = FALSE
  /\ programs = [c \in ChannelIds |-> <<>>]
  /\ fetches = 0
  /\ build_failed = FALSE
  /\ last = NoCall

Self == [channel_genre_map |-> channel_genre_map,
         genre_map_initialized |-> genre_map_initialized]

\* get_svc_channels()
GetSvcChannels ==
  \E outcome \in ListingOutcomes :
    LET r == SvcChannelsCall(Self, outcome) IN
    /\ channel_genre_map' = r.self.channel_genre_map
    /\ genre_map_initialized' = r.self.genre_map_initialized
    /\ build_failed' = (build_failed \/ ~r.self.genre_map_initialized)
    /\ last' = [op |-> "get_svc_channels",
                params |-> [BAS_DT |-> StrftimeYmd(Today), CHNL_TYPE |-> "1"],
                outcome |-> outcome, raised |-> r.raised, ret |-> r.ret]
    /\ UNCHANGED <<programs, fetches>>

\* _initialize_channel_genre_map(api_data_for_genres), called on its own
InitializeGenreMap ==
  \E api_data_for_genres \in ListingOutcomes \ {RequestException} :
    LET self1 == InitializeChannelGenreMap(Self, api_data_for_genres) IN
    /\ channel_genre_map' = self1.channel_genre_map
    /\ genre_map_initialized' = self1.genre_map_initialized
    /\ build_failed' = (build_failed \/ ~self1.genre_map_initialized)
    /\ last' = [op |-> "_initialize_channel_genre_map",
                outcome |-> api_data_for_genres, raised |-> FALSE]
    /\ UNCHANGED <<programs, fetches>>

\* get_programs(channel=..., day=...)
GetPrograms ==
  /\ fetches < MaxFetches
  /\ \E channel \in HostChannels, current_day \in Days, outcome \in ScheduleOutcomes :
       LET api_channel_id == ApiChannelId(channel)
           params == [BAS_DT |-> StrftimeYmd(current_day), CHNL_TYPE |-> "1",
                      CHNL_ID |-> api_channel_id]
           r == ProgramsCall(programs[channel.id], channel.id, outcome)
       IN
       IF api_channel_id = ""
       THEN /\ last' = [op |-> "get_programs", channel |-> channel.id,
                        fetched |-> FALSE, raised |-> FALSE]
            /\ UNCHANGED programs
       ELSE /\ programs' = [programs EXCEPT ![channel.id] = r.programs]
            /\ last' = [op |-> "get_programs", channel |-> channel.id,
                        fetched |-> TRUE, params |-> params, outcome |-> outcome,
                        raised |-> r.raised]
  /\ fetches' = fetches + 1
  /\ UNCHANGED <<channel_genre_map, genre_map_initialized, build_failed>>

\* get_programs without "channel" or "day", or with a channel object lacking
\* id, name, svcid or a list of programs: logged, nothing else
GetProgramsBadArguments ==
  /\ fetches < MaxFetches
  /\ last' = [op |-> "get_programs", channel |-> "", fetched |-> FALSE, raised |-> FALSE]
  /\ fetches' = fetches + 1
  /\ UNCHANGED <<channel_genre_map, genre_map_initialized, build_failed, programs>>

\* __epgs_of_day(channel_xmltv_id, [p_info]), on its own
EpgsOfDayOfOne ==
  \E p_info \in NormEntries, channel_xmltv_id \in {"101.lg"} :
    LET r == EpgsOfDay(channel_xmltv_id, JList(<<p_info>>)) IN
    /\ last' = [op |-> "__epgs_of_day", channel |-> channel_xmltv_id, p_info |-> p_info,
                raised |-> r.raised, ret |-> r.epgs]
    /\ UNCHANGED <<channel_genre_map, genre_map_initialized, build_failed, programs, fetches>>

\* the channel lister
NextListing == GetSvcChannels \/ InitializeGenreMap
SpecListing == Init /\ [][NextListing]_vars

\* the schedule fetcher
NextSchedule == GetPrograms \/ GetProgramsBadArguments
SpecSchedule == Init /\ [][NextSchedule]_vars

\* the entry normaliser
NextNormalize == EpgsOfDayOfOne
SpecNormalize == Init /\ [][NextNormalize]_vars

\* the provider as the host drives it
Next == GetSvcChannels \/ InitializeGenreMap \/ GetPrograms \/ GetProgramsBadArguments
Spec == Init /\ [][Next]_vars

----------------------------------------------------------------------------
(* Properties *)

IsPrefix(a, b) == Len(a) <= Len(b) /\ SubSeq(b, 1, Len(a)) = a
IsSuffix(a, b) == Len(a) <= Len(b) /\ SubSeq(b, Len(b) - Len(a) + 1, Len(b)) = a

\* a field that is there and is neither null nor the empty string
NonEmptyField(x, key) == key \in DOMAIN x.f /\ x.f[key] \notin {JNull, JStr("")}

\* the fields of the responses
GenreListOf(outcome) == Get(outcome, "brdGnreDtoList", Missing)
ChannelListOf(outcome) == Get(outcome, "brdCntrTvChnlIDtoList", Missing)
ScheduleListOf(outcome) == Get(outcome, "brdCntTvSchIDtoList", Missing)

ListedChannels == last.op = "get_svc_channels" /\ IsDict(last.outcome)
                    /\ IsList(ChannelListOf(last.outcome))
FetchedDay == last.op = "get_programs" /\ last.fetched
FetchedList == FetchedDay /\ IsDict(last.outcome) /\ IsList(ScheduleListOf(last.outcome))

\* C1: list_channels and fetch_day never raise to the host, whatever the
\* fetch did: the last call, whichever it was, came back normally.
NeverRaisesToHost == last.raised = FALSE

\* the category the three-way policy gives a raw channel entry
ThreeWayCategory(genre_map, x) ==
  IF ~NonEmptyField(x, "urcBrdCntrTvChnlGnreCd") THEN ""
  ELSE LET code == PyStr(x.f["urcBrdCntrTvChnlGnreCd"]) IN
       IF code \in DOMAIN genre_map THEN genre_map[code]
       ELSE GenreCodePrefix \o code

\* C2: every descriptor list_channels returns has the category of the
\* three-way policy: empty without a genre code, the genre name when the code
\* is a key of the lookup, the placeholder with the raw code otherwise.
CategoryFollowsThreeWayPolicy ==
  ListedChannels =>
    LET kept == SelectSeq(ChannelListOf(last.outcome).items, KeepsChannel) IN
    \A i \in 1..Len(last.ret) :
      i <= Len(kept) =>
        last.ret[i].Category = ThreeWayCategory(channel_genre_map, kept[i])

\* a raw channel entry that is a record with a non-empty id and a non-empty name
ValidChannelEntry(x) ==
  /\ IsDict(x)
  /\ NonEmptyField(x, "urcBrdCntrTvChnlId")
  /\ NonEmptyField(x, "urcBrdCntrTvChnlNm")

GenreMapBuiltOnce ==
  [][(genre_map_initialized \/ DOMAIN channel_genre_map # {}) =>
       /\ channel_genre_map' = channel_genre_map
       /\ genre_map_initialized' = genre_map_initialized]_vars

\* the response holds a genre record with both a code and a name
HasValidGenrePair(outcome) ==
  /\ IsDict(outcome)
  /\ IsList(GenreListOf(outcome))
  /\ \E i \in 1..Len(GenreListOf(outcome).items) :
       LET g == GenreListOf(outcome).items[i] IN
       /\ IsDict(g)
       /\ "urcBrdCntrTvChnlGnreCd" \in DOMAIN g.f /\ g.f["urcBrdCntrTvChnlGnreCd"] # JNull
       /\ "urcBrdCntrTvChnlGnreNm" \in DOMAIN g.f /\ g.f["urcBrdCntrTvChnlGnreNm"] # JNull

\* C4 witness: the lookup is built, and the last call offered a genre list
\* that would have built another one
OtherGenreListIgnored ==
  /\ genre_map_initialized
  /\ last.op \in {"get_svc_channels", "_initialize_channel_genre_map"}
  /\ HasValidGenrePair(last.outcome)
  /\ GenreLoop(GenreListOf(last.outcome).items, EmptyMap) # channel_genre_map

\* C10: the flag is set only with a non-empty lookup; a list_channels call on
\* an unbuilt lookup leaves it empty and unbuilt when the fetch fails or the
\* response has no valid genre pair, and builds it when the response has one,
\* whatever failed before.
FailedBuildDoesNotBlock ==
  /\ [](genre_map_initialized => DOMAIN channel_genre_map # {})
  /\ [][(last'.op = "get_svc_channels" /\ ~genre_map_initialized) =>
          IF HasValidGenrePair(last'.outcome)
          THEN genre_map_initialized' /\ DOMAIN channel_genre_map' # {}
          ELSE ~genre_map_initialized' /\ channel_genre_map' = EmptyMap]_vars

\* C10 witness: list_channels built the lookup after an earlier call had left
\* it unbuilt
BuiltAfterFailedBuild ==
  /\ build_failed
  /\ genre_map_initialized
  /\ last.op = "get_svc_channels"
  /\ HasValidGenrePair(last.outcome)
  /\ channel_genre_map = GenreLoop(GenreListOf(last.outcome).items, EmptyMap)

\* the schedule response is a record with a non-empty programme list that
\* the normaliser gets through
NormalizedDay(channel, outcome) ==
  /\ IsDict(outcome)
  /\ IsList(ScheduleListOf(outcome))
  /\ ScheduleListOf(outcome).items # <<>>
  /\ ~EpgsOfDay(channel, ScheduleListOf(outcome)).raised
DayRecords(channel, outcome) == EpgsOfDay(channel, ScheduleListOf(outcome)).epgs

\* C5: fetch_day only appends: every collection before a step is a prefix of
\* the collection after it; and a second fetch_day for the same channel and
\* day with the same response appends the day's records a second time.
AppendOnly ==
  [][/\ \A c \in ChannelIds : IsPrefix(programs[c], programs'[c])
     /\ (/\ last.op = "get_programs" /\ last'.op = "get_programs"
         /\ last.fetched /\ last'.fetched
         /\ last'.channel = last.channel
         /\ last'.params = last.params
         /\ last'.outcome = last.outcome
         /\ NormalizedDay(last.channel, last.outcome))
        => LET R == DayRecords(last.channel, last.outcome) IN
           /\ programs'[last.channel] = programs[last.channel] \o R
           /\ IsSuffix(R, programs[last.channel])]_vars

\* C5 witness: after two calls the collection is the day's records twice
DayAppendedTwice ==
  /\ fetches = 2
  /\ FetchedDay
  /\ NormalizedDay(last.channel, last.outcome)
  /\ DayRecords(last.channel, last.outcome) # <<>>
  /\ programs[last.channel] =
       DayRecords(last.channel, last.outcome) \o DayRecords(last.channel, last.outcome)

\* a raw programme entry that is a record whose date and start time are there
\* and parse as YYYYMMDD followed by HH:MM:SS
WellFormedEntry(p) ==
  /\ IsDict(p)
  /\ NonEmptyField(p, "brdCntrTvChnlBrdDt")
  /\ NonEmptyField(p, "epgStrtTme")
  /\ IsStr(p.f["brdCntrTvChnlBrdDt"]) /\ IsStr(p.f["epgStrtTme"])
  /\ Strptime(p.f["brdCntrTvChnlBrdDt"].s \o p.f["epgStrtTme"].s) # ValueError

\* normalising the entry raises an exception the loop does not handle
EntryRaises(channel, p) == EpgOfEntryOf[channel, p].kind = "raise"

\* the well-formed among the entries the model sends
WellFormedEntries == {p \in SentEntries : WellFormedEntry(p)}
IsWellFormed(p) == p \in WellFormedEntries

NoProgrammeList(outcome) ==
  \/ ~Truthy(FetchApiData(outcome))
  \/ /\ IsDict(outcome)
     /\ \/ "brdCntTvSchIDtoList" \notin DOMAIN outcome.f
        \/ ~IsList(ScheduleListOf(outcome))
        \/ ScheduleListOf(outcome).items = <<>>

\* C7: when the fetch fails or the programme list is missing, empty or no
\* list, fetch_day does not raise and leaves every collection as it was.
NoListLeavesProgramsAlone ==
  [][(last'.op = "get_programs" /\ last'.fetched /\ NoProgrammeList(last'.outcome))
     => programs' = programs /\ ~last'.raised]_vars

\* C7 witness: a call without a programme list came back, the collection
\* filled by the call before is still there
NoListAfterFilledDay ==
  /\ fetches = 2
  /\ FetchedDay
  /\ NoProgrammeList(last.outcome)
  /\ ~last.raised
  /\ programs[last.channel] # <<>>

\* C8: when normalising an entry of the batch raises, fetch_day does not
\* raise and appends nothing, the records of the entries before it included.
RaisingBatchAppendsNothing ==
  [][(last'.op = "get_programs" /\ last'.fetched /\ IsDict(last'.outcome)
        /\ IsList(ScheduleListOf(last'.outcome))
        /\ \E i \in 1..Len(ScheduleListOf(last'.outcome).items) :
             EntryRaises(last'.channel, ScheduleListOf(last'.outcome).items[i]))
     => programs' = programs /\ ~last'.raised]_vars

\* C8 witness: the batch had a normalisable entry before a raising one, and
\* the collection is still empty
RaisedAfterGoodEntry ==
  /\ fetches = 1
  /\ FetchedList
  /\ ~last.raised
  /\ LET raw == ScheduleListOf(last.outcome).items IN
     /\ Len(raw) >= 2
     /\ EpgOfEntryOf[last.channel, raw[1]].kind = "epg"
     /\ EntryRaises(last.channel, raw[2])
  /\ programs[last.channel] = <<>>

============================================================================
